---- MODULE Spec2Model ----
(***************************************************************************)
(* The bastion lifecycle and tunnel session orchestrator (db-tunnel        *)
(* script): the main sequence (two stack-output lookups, the               *)
(* ensureInstanceRunning polling loop, the pause, the spawn of the tunnel  *)
(* child), the three signal handlers that run cleanupAndExit, and the      *)
(* child "exit" observer.  Every await of the script is a point where the  *)
(* event loop may run another handler, so every await separates two        *)
(* actions.  The observed instance state is an input of each poll.         *)
(* The environment answers every DescribeInstances and StartInstances      *)
(* request; a stack lookup, the spawn, a kill and a StopInstances request  *)
(* may each fail.  Time advances by the duration of each sleep.            *)
(***************************************************************************)
EXTENDS Integers, Sequences, FiniteSets, TLC

\* ---------------------------------------------------------------- bounds
\* Signals delivered to the process in one run.
MaxTriggers == 2
\* Polls of one run that observe "stopped" or undefined (each issues a start).
MaxStarts == 2
\* Polls of one run; the deadline ends the loop before this is reached.
MaxPolls == 64

\* ------------------------------------------------------ program constants
timeoutMs == 300000
pollSleepMs == 5000

Signals == {"SIGINT", "SIGTERM", "SIGTSTP"}

\* InstanceStateName | undefined, as getInstanceState returns it.
InstanceStates ==
    {"pending", "running", "shutting-down", "terminated", "stopping",
     "stopped", "undefined"}

ChildExitCodes == {0, 1}

\* The sequence of observed states of the first end-to-end scenario.
Scenario == <<"stopped", "pending", "pending", "running">>

VARIABLES
    mainPc,          \* where main() is suspended
    bastionIdGlobal, \* TRUE once ec2Global and bastionIdGlobal are assigned
    childGlobal,     \* "undefined", "running" or "exited"
    childKilled,     \* childGlobal.killed
    childCode,       \* the code the child exited with, -1 before
    state,           \* the state the last poll observed, "none" before
    elapsed,         \* Date.now() - start at the last resumption of the loop
    polls,           \* getInstanceState calls answered
    matched,         \* polls so far, while they have observed exactly the
                     \* first states of Scenario in order; -1 once they differ
                     \* (these four belong to the ensureInstanceRunning call
                     \* and are kept until main() has started the session)
    startCalls,      \* StartInstances requests issued
    ensureResult,    \* outcome of ensureInstanceRunning, "none" while it runs
    cleanups,        \* cleanupAndExit invocations, in order of delivery, each
                     \* with its signal, its code and what its kill did
    firstAt,         \* the await main() was suspended at when the first
                     \* cleanupAndExit was called, "none" before
    observer,        \* child "exit" observer: idle, awaitStop, stopped, failed
    stopCalls,       \* StopInstances requests issued, by anyone
    observerStops,   \* StopInstances requests issued by the exit observer
    killSent,        \* kill("SIGINT") calls that reached a running child
    exited,          \* the process has exited
    exitCode,        \* its exit code, -1 before
    exitVia,         \* "none", "catch", "cleanup" or "natural"
    exitBy,          \* index in cleanups of the invocation that exited, 0 if none
    exitStop         \* outcome of that invocation's stop: none, ok, failed

vars ==
    <<mainPc, bastionIdGlobal, childGlobal, childKilled, childCode, state,
      matched, elapsed, polls, startCalls, ensureResult, cleanups, firstAt, observer,
      stopCalls,
      observerStops, killSent, exited, exitCode, exitVia, exitBy, exitStop>>

pollVars == <<state, elapsed, polls, matched, startCalls, ensureResult>>
childVars == <<childGlobal, childKilled, childCode>>
stopVars == <<cleanups, firstAt, observer, stopCalls, observerStops, killSent>>
exitVars == <<exited, exitCode, exitVia, exitBy, exitStop>>

\* --------------------------------------------------------------- helpers

\* The code each signal handler passes to cleanupAndExit.
ExitCodeOf(sig) ==
    CASE sig = "SIGTERM" -> 143
      [] sig = "SIGINT" -> 130
      [] sig = "SIGTSTP" -> 148

\* cleanupAndExit: if (childGlobal && !childGlobal.killed)
ShouldKill(child, killed) == child # "undefined" /\ ~killed

\* Variant: the stop request is skipped although the instance id is known.
ShouldStopNever(known) == FALSE

\* cleanupAndExit: if (ec2Global && bastionIdGlobal)
ShouldStop(known) == known

\* stopInstance: awaits the StopInstances request and does nothing else, so
\* it resolves when the request is accepted and rejects, to its caller, with
\* whatever error the request is rejected with.
StopInstanceResult(accepted) == IF accepted THEN "ok" ELSE "failed"

\* Variant: a failed stop request is re-raised and ends the process with 1.
CodeAfterStopRaised(code, ok) == IF ok THEN code ELSE 1

\* cleanupAndExit: the try/catch around stopInstance falls through to
\* process.exit(code) whether the request succeeded or threw.
CodeAfterStop(code, ok) == code

\* Variant: the child's exit code becomes the exit status of the process.
StatusAfterChildForwarded(code) == code

\* The exit observer sets no exit status: the process ends with status 0
\* when the event loop drains.
StatusAfterChild(code) == 0

\* Variant: "shutting-down" is not treated as terminal.
IsTerminalOnlyTerminated(s) == s = "terminated"

\* ensureInstanceRunning: state === "terminated" || state === "shutting-down"
IsTerminal(s) == s \in {"terminated", "shutting-down"}

\* Variant: a start is issued for "pending" as well.
ShouldStartAlsoPending(s) == s \in {"stopped", "undefined", "pending"}

\* ensureInstanceRunning: state === "stopped" || state === undefined
ShouldStart(s) == s \in {"stopped", "undefined"}

\* Variant: the "stopping" branch continues without a deadline test.
StoppingNeverTimedOut(e) == FALSE

\* ensureInstanceRunning: the deadline test of the "stopping" branch.
StoppingTimedOut(e) == e > timeoutMs

\* Variant: the iteration ends without a deadline test.
RunningNeverTimedOut(e) == FALSE

\* ensureInstanceRunning: the deadline test at the end of an iteration.
RunningTimedOut(e) == e > timeoutMs

\* main().catch: console.error(e); process.exit(1)
CatchExitCode == 1

\* ------------------------------------------------------------------ Init

Init ==
    /\ mainPc = "lookupId"
    /\ bastionIdGlobal = FALSE
    /\ childGlobal = "undefined"
    /\ childKilled = FALSE
    /\ childCode = -1
    /\ state = "none"
    /\ elapsed = 0
    /\ polls = 0
    /\ matched = 0
    /\ startCalls = 0
    /\ ensureResult = "none"
    /\ cleanups = <<>>
    /\ firstAt = "none"
    /\ observer = "idle"
    /\ stopCalls = 0
    /\ observerStops = 0
    /\ killSent = 0
    /\ exited = FALSE
    /\ exitCode = -1
    /\ exitVia = "none"
    /\ exitBy = 0
    /\ exitStop = "none"

\* Variant: the catch handler only logs; the process ends with status 0.
MainFailsLoggedOnly ==
    /\ mainPc' = "failed"
    /\ exited' = TRUE
    /\ exitCode' = 0
    /\ exitVia' = "catch"
    /\ UNCHANGED <<exitBy, exitStop>>

\* main() rejected: the catch handler logs and exits with 1.
MainFails ==
    /\ mainPc' = "failed"
    /\ exited' = TRUE
    /\ exitCode' = CatchExitCode
    /\ exitVia' = "catch"
    /\ UNCHANGED <<exitBy, exitStop>>

\* ---------------------------------------------------------- main sequence

\* getStackOutput(cf, accessStack, "VersoStatBastionInstanceId") settles.
LookupId ==
    /\ ~exited
    /\ mainPc = "lookupId"
    /\ \E found \in BOOLEAN :
        IF found
        THEN /\ bastionIdGlobal' = TRUE
             /\ mainPc' = "lookupHost"
             /\ UNCHANGED exitVars
        ELSE /\ MainFails
             /\ UNCHANGED bastionIdGlobal
    /\ UNCHANGED <<pollVars, childVars, stopVars>>

\* getStackOutput(cf, dbStack, "VersoStatDbHost") settles; on success
\* ensureInstanceRunning is entered and sends its first DescribeInstances.
LookupHost ==
    /\ ~exited
    /\ mainPc = "lookupHost"
    /\ \E found \in BOOLEAN :
        IF found
        THEN /\ mainPc' = "describe"
             /\ UNCHANGED exitVars
        ELSE MainFails
    /\ UNCHANGED <<bastionIdGlobal, pollVars, childVars, stopVars>>

\* getInstanceState answers with s; the iteration runs up to its next await.
Describe ==
    /\ ~exited
    /\ mainPc = "describe"
    /\ polls < MaxPolls
    /\ \E s \in InstanceStates :
        /\ (s \in {"stopped", "undefined"}) => startCalls < MaxStarts
        /\ state' = s
        /\ polls' = polls + 1
        /\ matched' = IF matched = polls /\ polls < Len(Scenario) /\ s = Scenario[polls + 1]
                      THEN polls + 1
                      ELSE -1
        /\ IF s = "running"
           THEN /\ ensureResult' = "success"
                /\ mainPc' = "pause"
                /\ UNCHANGED <<startCalls, exitVars>>
           ELSE IF IsTerminal(s)
           THEN /\ ensureResult' = "TerminalState"
                /\ MainFails
                /\ UNCHANGED startCalls
           ELSE IF s = "stopping"
           THEN /\ UNCHANGED startCalls
                /\ IF StoppingTimedOut(elapsed)
                   THEN /\ ensureResult' = "Timeout"
                        /\ MainFails
                   ELSE /\ mainPc' = "sleep"
                        /\ UNCHANGED <<ensureResult, exitVars>>
           ELSE IF ShouldStart(s)
           THEN /\ startCalls' = startCalls + 1
                /\ mainPc' = "start"
                /\ UNCHANGED <<ensureResult, exitVars>>
           ELSE /\ UNCHANGED startCalls
                /\ IF RunningTimedOut(elapsed)
                   THEN /\ ensureResult' = "Timeout"
                        /\ MainFails
                   ELSE /\ mainPc' = "sleep"
                        /\ UNCHANGED <<ensureResult, exitVars>>
    /\ UNCHANGED <<elapsed, bastionIdGlobal, childVars, stopVars>>

\* The StartInstances request returns; the iteration ends with its deadline
\* test.
StartReturns ==
    /\ ~exited
    /\ mainPc = "start"
    /\ IF RunningTimedOut(elapsed)
       THEN /\ ensureResult' = "Timeout"
            /\ MainFails
       ELSE /\ mainPc' = "sleep"
            /\ UNCHANGED <<ensureResult, exitVars>>
    /\ UNCHANGED <<state, elapsed, polls, matched, startCalls, bastionIdGlobal,
                   childVars, stopVars>>

\* sleep(5000) of the loop resolves; the next DescribeInstances is sent.
PollSleep ==
    /\ ~exited
    /\ mainPc = "sleep"
    /\ elapsed' = elapsed + pollSleepMs
    /\ mainPc' = "describe"
    /\ UNCHANGED <<state, polls, matched, startCalls, ensureResult,
                   bastionIdGlobal, childVars, stopVars, exitVars>>

\* sleep(10000) resolves; spawn either creates the child, which is recorded
\* in childGlobal and given its exit observer, or fails.  A failed spawn is
\* either thrown by spawn (main() rejects and its catch exits with 1) or
\* reported as an "error" event on the next tick, which has no listener and
\* ends the process as an uncaught exception, with status 1 as well; no
\* other handler runs in between and no "exit" event is emitted.
\* The locals of the finished ensureInstanceRunning call (state, elapsed
\* and the poll counts) are dropped once the session has been started.
Spawn ==
    /\ ~exited
    /\ mainPc = "pause"
    /\ \E created \in BOOLEAN :
        IF created
        THEN /\ childGlobal' = "running"
             /\ mainPc' = "done"
             /\ state' = "none"
             /\ elapsed' = 0
             /\ polls' = 0
             /\ matched' = 0
             /\ UNCHANGED <<startCalls, ensureResult, exitVars>>
        ELSE /\ MainFails
             /\ UNCHANGED <<childGlobal, pollVars>>
    /\ UNCHANGED <<childKilled, childCode, bastionIdGlobal, stopVars>>

\* -------------------------------------------------------- signal handlers

\* A signal is delivered: its handler calls cleanupAndExit(code), which runs
\* synchronously up to the await of stopInstance, or up to process.exit when
\* there is no instance id yet.
Trigger ==
    /\ ~exited
    /\ Len(cleanups) < MaxTriggers
    /\ \E sig \in Signals, kill \in {"sent", "threw"} :
        LET code == ExitCodeOf(sig)
            tries == ShouldKill(childGlobal, childKilled)
            \* kill() on a child that has exited sends nothing, returns false
            \* and leaves killed unset
            done == IF ~tries THEN "none"
                    ELSE IF childGlobal = "exited" THEN "missed"
                    ELSE kill
        IN  /\ (~tries \/ childGlobal = "exited") => kill = "sent"
            /\ childKilled' = (childKilled \/ done = "sent")
            /\ killSent' = killSent + (IF done = "sent" THEN 1 ELSE 0)
            /\ cleanups' = Append(cleanups, [sig |-> sig, code |-> code, kill |-> done])
            /\ firstAt' = IF cleanups = <<>> THEN mainPc ELSE firstAt
            /\ IF ShouldStop(bastionIdGlobal)
               THEN /\ stopCalls' = stopCalls + 1
                    /\ UNCHANGED exitVars
               ELSE /\ exited' = TRUE
                    /\ exitCode' = code
                    /\ exitVia' = "cleanup"
                    /\ exitBy' = Len(cleanups) + 1
                    /\ exitStop' = "none"
                    /\ UNCHANGED stopCalls
    /\ UNCHANGED <<mainPc, bastionIdGlobal, childGlobal, childCode, pollVars,
                   observer, observerStops>>

\* The StopInstances request of the i-th cleanupAndExit settles: success is
\* logged, failure is caught and logged, and process.exit(code) follows.
CleanupStopReturns ==
    /\ ~exited
    /\ \E i \in 1..Len(cleanups), accepted \in BOOLEAN :
        LET result == StopInstanceResult(accepted)
        IN  /\ exited' = TRUE
            /\ exitCode' = CodeAfterStop(cleanups[i].code, result = "ok")
            /\ exitVia' = "cleanup"
            /\ exitBy' = i
            /\ exitStop' = result
    /\ UNCHANGED <<mainPc, bastionIdGlobal, pollVars, childVars, stopVars>>

\* ------------------------------------------------------- child and observer

\* The child exits (by itself or after a kill); the "exit" observer logs the
\* code and calls stopInstance.
ChildExit ==
    /\ ~exited
    /\ childGlobal = "running"
    /\ \E code \in ChildExitCodes :
        /\ childGlobal' = "exited"
        /\ childCode' = code
    /\ observer' = "awaitStop"
    /\ stopCalls' = stopCalls + 1
    /\ observerStops' = observerStops + 1
    /\ UNCHANGED <<mainPc, bastionIdGlobal, childKilled, pollVars, cleanups,
                   firstAt, killSent, exitVars>>

\* The observer's StopInstances request settles: logged either way.
ObserverStopReturns ==
    /\ ~exited
    /\ observer = "awaitStop"
    /\ \E accepted \in BOOLEAN :
        observer' = IF StopInstanceResult(accepted) = "ok" THEN "stopped" ELSE "failed"
    /\ UNCHANGED <<mainPc, bastionIdGlobal, pollVars, childVars, cleanups,
                   firstAt, stopCalls, observerStops, killSent, exitVars>>

\* Nothing is pending any more (main returned, child gone, no request in
\* flight): the event loop drains and the process ends.
NaturalExit ==
    /\ ~exited
    /\ mainPc = "done"
    /\ childGlobal = "exited"
    /\ observer \in {"stopped", "failed"}
    /\ cleanups = <<>>
    /\ exited' = TRUE
    /\ exitCode' = StatusAfterChild(childCode)
    /\ exitVia' = "natural"
    /\ UNCHANGED <<exitBy, exitStop, mainPc, bastionIdGlobal, pollVars,
                   childVars, stopVars>>

\* --------------------------------------------------------- specifications

Next ==
    \/ LookupId
    \/ LookupHost
    \/ Describe
    \/ StartReturns
    \/ PollSleep
    \/ Spawn
    \/ Trigger
    \/ CleanupStopReturns
    \/ ChildExit
    \/ ObserverStopReturns
    \/ NaturalExit

Spec == Init /\ [][Next]_vars

\* ensureInstanceRunning on its own: the state in which main() enters it
\* (both lookups done, no signal), and the steps of its loop.  The event loop
\* runs every timer that expires and every response that arrives.
InitEnsure ==
    /\ mainPc = "describe"
    /\ bastionIdGlobal = TRUE
    /\ childGlobal = "undefined"
    /\ childKilled = FALSE
    /\ childCode = -1
    /\ state = "none"
    /\ elapsed = 0
    /\ polls = 0
    /\ matched = 0
    /\ startCalls = 0
    /\ ensureResult = "none"
    /\ cleanups = <<>>
    /\ firstAt = "none"
    /\ observer = "idle"
    /\ stopCalls = 0
    /\ observerStops = 0
    /\ killSent = 0
    /\ exited = FALSE
    /\ exitCode = -1
    /\ exitVia = "none"
    /\ exitBy = 0
    /\ exitStop = "none"

NextEnsure ==
    \/ Describe
    \/ StartReturns
    \/ PollSleep

EnsureSpec == InitEnsure /\ [][NextEnsure]_vars /\ WF_vars(NextEnsure)

\* ------------------------------------------------------------------ claims

\* The exit code the handler of each signal is documented to produce.
TriggerCode(sig) ==
    IF sig = "SIGINT" THEN 130 ELSE IF sig = "SIGTERM" THEN 143 ELSE 148

\* C1: however many signals are delivered (one or more), the teardown body
\* runs once: exactly one stop request is issued for the instance in the run.
C1_OneStopPerRun ==
    (cleanups # <<>> /\ bastionIdGlobal) => stopCalls = 1

\* C2: a single SIGINT delivered while the child is running asks the child to
\* terminate and leads to exactly one stop request in total, none of them
\* issued by the child-exit observer, and to exit code 130.
C2_InterruptStopsOnce ==
    (Len(cleanups) = 1 /\ cleanups[1].sig = "SIGINT" /\ cleanups[1].kill = "sent")
        => /\ killSent = 1
           /\ stopCalls = 1
           /\ observerStops = 0
           /\ exited => exitCode = 130

\* C3: SIGINT followed by SIGTERM before the first teardown completes: the
\* teardown exits with the code of the first trigger, 130, whichever stop
\* request returns first.
C3_FirstTriggerCode ==
    (exitVia = "cleanup" /\ Len(cleanups) >= 2
        /\ cleanups[1].sig = "SIGINT" /\ cleanups[2].sig = "SIGTERM")
        => exitCode = 130

\* C4: a start request is issued only by a poll that has just observed
\* "stopped" or undefined, one request per such poll; a poll that observes
\* pending, stopping or running issues none.
C4_StartOnlyFromStopped ==
    [][startCalls' # startCalls =>
        /\ polls' = polls + 1
        /\ state' \in {"stopped", "undefined"}
        /\ startCalls' = startCalls + 1]_vars

C4_Witness ==
    /\ startCalls = 1
    /\ polls = 3
    /\ state = "pending"
    /\ mainPc = "sleep"

\* C5: a poll that observes terminated or shutting-down fails with
\* TerminalState in that same iteration, without a start request; after that
\* there is no further poll, sleep or start; and if it was the first poll no
\* start request was issued at all.
C5_TerminalFailsAtOnce ==
    /\ [][(polls' # polls /\ state' \in {"terminated", "shutting-down"}) =>
            /\ ensureResult' = "TerminalState"
            /\ startCalls' = startCalls
            /\ mainPc' = "failed"]_vars
    /\ [][ensureResult = "TerminalState" =>
            /\ polls' = polls
            /\ startCalls' = startCalls
            /\ elapsed' = elapsed]_vars
    /\ []((ensureResult = "TerminalState" /\ polls = 1) => startCalls = 0)

C5_Witness ==
    /\ ensureResult = "TerminalState"
    /\ state = "shutting-down"
    /\ polls = 1
    /\ exitCode = 1

\* C6 as stated: a poll answered after the deadline has passed fails with
\* Timeout, whatever state it observes.
C6_TimeoutWhateverState ==
    (elapsed > timeoutMs /\ mainPc \notin {"describe", "start"})
        => ensureResult = "Timeout"

\* C6 as amended: a poll answered after the deadline has passed fails with
\* Timeout when it observes stopped, undefined, pending or stopping; it still
\* returns success when it observes running and still fails with
\* TerminalState when it observes terminated or shutting-down.  Timeout is
\* raised only past the deadline.
C6_TimeoutUnlessRunningOrTerminal ==
    /\ (elapsed > timeoutMs /\ mainPc \notin {"describe", "start"})
        => ensureResult =
            IF state = "running" THEN "success"
            ELSE IF state \in {"terminated", "shutting-down"} THEN "TerminalState"
            ELSE "Timeout"
    /\ ensureResult = "Timeout"
        => /\ elapsed > timeoutMs
           /\ state \in {"stopped", "undefined", "pending", "stopping"}

C6_Witness ==
    /\ ensureResult = "Timeout"
    /\ state = "stopping"

C8_ExitAfterTeardown ==
    exitVia = "cleanup" =>
        /\ exitBy \in 1..Len(cleanups)
        /\ exitCode = TriggerCode(cleanups[exitBy].sig)
        /\ bastionIdGlobal => (exitStop \in {"ok", "failed"} /\ stopCalls >= 1)

C8_Witness ==
    /\ exitVia = "cleanup"
    /\ bastionIdGlobal
    /\ exitCode = 148
    /\ exitStop = "ok"

\* C9: when the child exits with no signal delivered, exactly one stop request
\* is issued (by the exit observer), and the process then ends with status 0
\* whatever the child's code was.
C9_ChildExitTeardown ==
    (childGlobal = "exited" /\ cleanups = <<>>) =>
        /\ stopCalls = 1
        /\ observerStops = 1
        /\ exited => (exitVia = "natural" /\ exitCode = 0)

C9_Witness ==
    /\ exitVia = "natural"
    /\ childCode = 1
    /\ exitCode = 0

C11_AbortStartedNothing ==
    exitVia = "catch" => startCalls = 0

\* C12: until both lookups have succeeded no start request and no stop request
\* has been issued and no child has been spawned, whenever signals arrive; and
\* a failed lookup ends the process with 1 with none of these done.
C12_LookupsBeforeLifecycle ==
    (mainPc \in {"lookupId", "lookupHost"} \/ (mainPc = "failed" /\ polls = 0))
        => /\ startCalls = 0
           /\ stopCalls = 0
           /\ childGlobal = "undefined"
           /\ (mainPc = "failed" => exitCode = 1)

\* C13: stopInstance called for an instance that is absent from observation
\* (the poll just before the call found no such instance, and none followed)
\* completes as a success: no error reaches its caller, whatever the
\* StopInstances request answers.
C13_StopAbsentSucceeds ==
    (exitVia = "cleanup" /\ exitStop # "none" /\ state = "undefined"
        /\ exitBy = 1 /\ firstAt = "start" /\ mainPc = "start")
        => exitStop = "ok"

\* C14: a signal delivered while ensureInstanceRunning is polling goes through
\* cleanupAndExit like any other: a stop request is issued at once, and when
\* it is the only signal of the run the process exits with that signal's code.
C14_TriggerWhilePolling ==
    (cleanups # <<>> /\ firstAt \in {"describe", "start", "sleep"})
        => /\ stopCalls >= 1
           /\ (exited /\ Len(cleanups) = 1) => exitCode = TriggerCode(cleanups[1].sig)

\* C15: when the tunnel child cannot be created the process ends with status
\* 1, no child is recorded as running or exited, and the child-exit observer
\* never runs (it issues no stop request).
C15_SpawnFailureIsFatal ==
    (mainPc = "failed" /\ ensureResult = "success")
        => /\ exited
           /\ exitCode = 1
           /\ exitVia # "natural"
           /\ childGlobal = "undefined"
           /\ observer = "idle"
           /\ observerStops = 0

C15_Witness ==
    /\ mainPc = "failed"
    /\ ensureResult = "success"
    /\ exitCode = 1
    /\ startCalls = 1

\* C16 as stated: for the observed sequence stopped, pending, pending, running
\* there is exactly one start request and success comes after 3 polls.
C16_ScenarioThreePolls ==
    matched = Len(Scenario)
        => /\ ensureResult = "success"
           /\ startCalls = 1
           /\ polls = 3

\* C16 as amended: for the observed sequence stopped, pending, pending, running
\* there is exactly one start request, issued by the poll that observed
\* stopped and by none of the pending polls, and success comes with the
\* fourth poll, after three sleeps.
C16_ScenarioFourPolls ==
    /\ matched \in 1..Len(Scenario) => (startCalls = 1 /\ polls = matched)
    /\ matched = Len(Scenario)
        => /\ ensureResult = "success"
           /\ polls = 4
           /\ elapsed = 3 * pollSleepMs

C16_Witness ==
    /\ matched = Len(Scenario)
    /\ ensureResult = "success"
    /\ mainPc = "pause"

\* C17: while a teardown's stop request is in flight (a signal handler has
\* entered cleanupAndExit) the main sequence issues no start request.
C17_NoStartAfterTeardown ==
    [][cleanups # <<>> => startCalls' = startCalls]_vars

\* C18: when a signal's teardown ends the process, a child that was spawned
\* and has not exited has been sent (or at least been tried to be sent) a
\* termination request by some teardown.
C18_NoChildLeftBehind ==
    (exitVia = "cleanup" /\ childGlobal = "running")
        => \E i \in 1..Len(cleanups) : cleanups[i].kill \in {"sent", "threw"}

====
